---- MODULE Spec2Model ----
(***************************************************************************)
(* Model of the authenticated gateway in front of the Odoo XML-RPC API:    *)
(* the upstream RPC client (core/odoo_client.py), the token service and    *)
(* authorization guard (core/security.py) and the login handlers           *)
(* (api/auth.py).                                                          *)
(*                                                                         *)
(* All route handlers are `async def` and call the blocking XML-RPC client *)
(* directly, so one request runs at a time on the event loop.  The model   *)
(* keeps one request in flight: pc is its position, and every remote       *)
(* invocation is one step whose response the upstream chooses.             *)
(***************************************************************************)
EXTENDS Integers, Sequences, FiniteSets, TLC

VARIABLES
    uid,             \* OdooClient.uid of each client object
    cfg,             \* OdooClient.db / username / api_key of each client object
    pc,              \* position of the request in flight ("idle" when none)
    au,              \* frame of the running / last _authenticate() call
    ex,              \* frame of the running / last execute_kw() call
    req,             \* the handler in flight and its locals
    resp,            \* the last response a handler produced
    now,             \* wall clock, in ticks
    API_USERS,       \* core.config.API_USERS
    REVOKED_TOKENS,  \* core.config.REVOKED_TOKENS
    issued,          \* token strings produced by create_access_token
    ah,              \* history of the running / last _authenticate() call
    eh,              \* history of the running / last execute_kw() call
    trace            \* whether ah and eh are recorded

vars == <<uid, cfg, pc, au, ex, req, resp, now, API_USERS, REVOKED_TOKENS, issued,
          ah, eh, trace>>

clientVars == <<uid, cfg, au, ex>>
tokenVars  == <<now, API_USERS, REVOKED_TOKENS, issued>>

-----------------------------------------------------------------------------
(* Bounds of the model *)

MaxHandle == 2       \* session handles the upstream may hand out: 1..MaxHandle
MaxIssued == 2       \* tokens minted in one run
MaxRevoked == 2      \* token strings revoked in one run
MaxTick == 3         \* clock ticks taken on either side of the jump over the ttl

-----------------------------------------------------------------------------
(* Values *)

NoneVal  == -1       \* Python None in OdooClient.uid
FalseVal == 0        \* Python False, what common.authenticate returns on bad credentials

Handles == 1 .. MaxHandle

Truthy_unless_None(u) == u # NoneVal

\* Python truthiness of self.uid (`if self.uid`, `if not self.uid`)
Truthy(u) == u \notin {NoneVal, FalseVal}

NoStr == ""          \* an absent (None) or empty string: falsy in Python

ODOO_CONFIG == [db |-> "OMHI-TEST", username |-> "admin@jnpgroupe.com", api_key |-> "default-key"]

Clients == {"default", "custom"}

\* Texts are sequences of pieces, so that a wrapped message still contains the
\* text it wraps: f"Erreur Odoo: {last_error}" is <<"Erreur Odoo: ">> \o last_error.
FaultMsgs == {"Session Expired", "Access Denied", "Connection refused"}

lower(s) ==
    CASE s = "Session Expired" -> "session expired"
      [] s = "Access Denied"   -> "access denied"
      [] OTHER                 -> s

Contains_any_text(text, pat) == text # <<>>

\* `pat in text.lower()`
Contains(text, pat) == \E i \in DOMAIN text : lower(text[i]) = pat

\* What one remote invocation may answer: a value, or a fault with a message.
Ret(v)   == [k |-> "ret", v |-> v, m |-> NoStr]
Fault(m) == [k |-> "fault", v |-> <<>>, m |-> m]

\* common.authenticate: a uid, False, or a fault
AuthFault(m) == [k |-> "fault", v |-> NoneVal, m |-> m]
AuthResponses == {Ret(h) : h \in Handles \cup {FalseVal}} \cup {AuthFault(m) : m \in FaultMsgs}

\* str(e) of the exception a fault raises
str(r) == <<r.m>>

-----------------------------------------------------------------------------
(* History of the running / last _authenticate() and execute_kw() calls.  It
   is written only when `trace` is set and is never read by the program. *)

NoAh == [log |-> <<>>, last |-> Ret(NoneVal), sleeps |-> 0, uid0 |-> NoneVal]
NoEh == [log |-> <<>>, sleeps |-> 0, nAuthCalls |-> 0, forced |-> 0, uid0 |-> NoneVal,
         preFailed |-> 0, forcedAt |-> <<>>, errs |-> <<>>]

Rec(old, new) == IF trace THEN new ELSE old

-----------------------------------------------------------------------------
(* OdooClient._authenticate, core/odoo_client.py:24-54 *)

auth_max_retries_4 == 3 + 1

auth_max_retries == 3

NoAu == [client |-> "default", ret |-> "none", retry_count |-> 0, last_error |-> <<>>,
         outcome |-> "none", error |-> <<>>]

\* Entry of _authenticate on client c, called from `ret`
AuEnter(c, ret) ==
    [client |-> c, ret |-> ret, retry_count |-> 0, last_error |-> <<>>,
     outcome |-> "running", error |-> <<>>]

AhEnter(u0) == Rec(ah, [NoAh EXCEPT !.uid0 = u0])

\* Where control goes when _authenticate returns normally
AuthReturnPc(ret) ==
    CASE ret = "init"        -> "ctor_done"
      [] ret = "exec_pre"    -> "exec_rpc"
      [] ret = "exec_reauth" -> "exec_backoff"

\* Where control goes when _authenticate raises
AuthRaisePc(ret) ==
    CASE ret = "init"        -> "ctor_done"
      [] ret = "exec_pre"    -> "exec_except"
      [] ret = "exec_reauth" -> "exec_backoff"

InExec(ret) == ret \in {"exec_pre", "exec_reauth"}

StoreUid_dropped(u, c, r) == u

StoreUid_shared(u, c, r) == IF r.k = "ret" THEN [u EXCEPT !["default"] = r.v] ELSE u

\* self.uid = common.authenticate(...): the field is assigned whatever the remote
\* returns, False included; a fault leaves it as it was
StoreUid(u, c, r) == IF r.k = "ret" THEN [u EXCEPT ![c] = r.v] ELSE u

\* One iteration of the while loop: the remote authenticate and, when it fails,
\* the except block with its unconditional sleep.
authenticate_try ==
    /\ pc = "auth_try"
    /\ \E r \in AuthResponses :
        LET c    == au.client
            ok   == r.k = "ret" /\ Truthy(r.v)
            kind == IF r.k = "fault" THEN "fault" ELSE IF ok THEN "ok" ELSE "false"
            err  == IF r.k = "fault" THEN str(r) ELSE <<"Identifiants Odoo incorrects">>
            rc   == au.retry_count + 1
        IN  /\ uid' = StoreUid(uid, c, r)
            /\ IF ok
               THEN /\ au' = [au EXCEPT !.outcome = "returned"]
                    /\ ah' = Rec(ah, [ah EXCEPT !.log = Append(@, kind), !.last = r])
                    /\ pc' = AuthReturnPc(au.ret)
                    /\ eh' = eh
               ELSE /\ au' = [au EXCEPT !.retry_count = rc, !.last_error = err]
                    /\ ah' = Rec(ah, [ah EXCEPT !.log = Append(@, kind), !.last = r,
                                                !.sleeps = @ + 1])
                    /\ pc' = IF rc < auth_max_retries THEN "auth_try" ELSE "auth_raise"
                    /\ eh' = IF InExec(au.ret)
                             THEN Rec(eh, [eh EXCEPT !.sleeps = @ + 1]) ELSE eh
    /\ UNCHANGED <<cfg, ex, req, resp, trace, tokenVars>>

\* After the loop: raise Exception(f"Échec de l'authentification Odoo: {last_error}")
authenticate_raise ==
    /\ pc = "auth_raise"
    /\ LET e == <<"Echec de l'authentification Odoo: ">> \o au.last_error
       IN  /\ au' = [au EXCEPT !.outcome = "raised", !.error = e]
           /\ ex' = IF au.ret = "exec_pre" THEN [ex EXCEPT !.exc = e] ELSE ex
           /\ pc' = AuthRaisePc(au.ret)
    /\ eh' = IF au.ret = "exec_pre"
             THEN Rec(eh, [eh EXCEPT !.preFailed = @ + 1,
                                     !.errs = Append(@, <<"Echec de l'authentification Odoo: ">>
                                                        \o au.last_error)])
             ELSE eh
    /\ UNCHANGED <<uid, cfg, req, resp, ah, trace, tokenVars>>

-----------------------------------------------------------------------------
(* OdooClient.execute_kw, core/odoo_client.py:56-93 *)

exec_max_retries_3 == 2 + 1

exec_max_retries_1 == 2 - 1

exec_max_retries == 2

\* Results the remote execute may return: a list of records.  partner_id is 0
\* when the record has none (False, or the field was not asked for).
Emp == [id |-> 7, name |-> "Awa", partner_id |-> 0]
Usr == [id |-> 2, name |-> "Admin", partner_id |-> 3]
Results == {<<>>, <<Emp>>, <<Usr>>}

ExecResponses == {Ret(v) : v \in Results} \cup {Fault(m) : m \in FaultMsgs}

NoEx == [client |-> "default", retry_count |-> 0, last_error |-> <<>>, outcome |-> "none",
         result |-> <<>>, error |-> <<>>, exc |-> <<>>, model |-> NoStr, method |-> NoStr]

\* Entry of execute_kw(model, method, ...) on client c
ExCall(c, model, method) ==
    [client |-> c, retry_count |-> 0, last_error |-> <<>>, outcome |-> "running",
     result |-> <<>>, error |-> <<>>, exc |-> <<>>, model |-> model, method |-> method]

EhEnter(c) == Rec(eh, [NoEh EXCEPT !.uid0 = uid[c]])

exec_error_no_text(e) == <<"Erreur Odoo">>

\* raise Exception(f"Erreur Odoo: {last_error}"); model and method only go to the
\* log line before it
exec_error(e) == <<"Erreur Odoo: ">> \o e.last_error

\* The while test, and inside the try the `if not self.uid: self._authenticate()`
execute_kw_loop ==
    /\ pc = "exec_loop"
    /\ IF ex.retry_count < exec_max_retries
       THEN IF ~Truthy(uid[ex.client])
            THEN /\ au' = AuEnter(ex.client, "exec_pre")
                 /\ ah' = AhEnter(uid[ex.client])
                 /\ eh' = Rec(eh, [eh EXCEPT !.nAuthCalls = @ + 1])
                 /\ pc' = "auth_try"
                 /\ ex' = ex
            ELSE /\ pc' = "exec_rpc"
                 /\ UNCHANGED <<au, ex, ah, eh>>
       ELSE /\ ex' = [ex EXCEPT !.outcome = "raised", !.error = exec_error(ex)]
            /\ pc' = "exec_done"
            /\ UNCHANGED <<au, ah, eh>>
    /\ UNCHANGED <<uid, cfg, req, resp, trace, tokenVars>>

\* models.execute_kw(self.db, self.uid, self.api_key, ...) and `return result`
execute_kw_rpc ==
    /\ pc = "exec_rpc"
    /\ \E r \in ExecResponses :
        LET entry == [k |-> r.k, v |-> r.v, uid |-> uid[ex.client]]
        IN  /\ eh' = Rec(eh, [eh EXCEPT !.log = Append(@, entry),
                                        !.errs = IF r.k = "ret" THEN @ ELSE Append(@, <<r.m>>)])
            /\ IF r.k = "ret"
               THEN /\ ex' = [ex EXCEPT !.outcome = "returned", !.result = r.v]
                    /\ pc' = "exec_done"
               ELSE /\ ex' = [ex EXCEPT !.exc = str(r)]
                    /\ pc' = "exec_except"
    /\ UNCHANGED <<uid, cfg, au, req, resp, ah, trace, tokenVars>>

\* The except block up to the forced re-authentication
execute_kw_except ==
    /\ pc = "exec_except"
    /\ LET e == ex.exc
       IN  IF Contains(e, "session expired") \/ Contains(e, "access denied")
           THEN /\ ex' = [ex EXCEPT !.last_error = e, !.retry_count = @ + 1, !.exc = <<>>]
                /\ eh' = Rec(eh, [eh EXCEPT !.forced = @ + 1, !.nAuthCalls = @ + 1,
                                            !.forcedAt = Append(@, ex.retry_count + 1)])
                /\ au' = AuEnter(ex.client, "exec_reauth")
                /\ ah' = AhEnter(uid[ex.client])
                /\ pc' = "auth_try"
           ELSE /\ ex' = [ex EXCEPT !.last_error = e, !.retry_count = @ + 1, !.exc = <<>>]
                /\ pc' = "exec_backoff"
                /\ UNCHANGED <<au, ah, eh>>
    /\ UNCHANGED <<uid, cfg, req, resp, trace, tokenVars>>

\* `if retry_count < max_retries: time.sleep(1)`, then back to the while test
execute_kw_backoff ==
    /\ pc = "exec_backoff"
    /\ eh' = IF ex.retry_count < exec_max_retries
             THEN Rec(eh, [eh EXCEPT !.sleeps = @ + 1]) ELSE eh
    /\ pc' = "exec_loop"
    /\ UNCHANGED <<uid, cfg, au, ex, req, resp, ah, trace, tokenVars>>

-----------------------------------------------------------------------------
(* Credential store, core/config.py:25-45 and core/security.py:14-36 *)

\* pwd_context.hash / pwd_context.verify (bcrypt): a hash verifies exactly the
\* password it was made from
Hash(p) == <<"bcrypt", p>>
verify_password(plain_password, hashed_password) == Hash(plain_password) = hashed_password

\* An optional value is a sequence of length 0 (absent) or 1
None == <<>>
Some(x) == <<x>>

StoreUser(name, password, scopes) ==
    [username |-> name, hashed_password |-> Hash(password), is_active |-> TRUE,
     scopes |-> scopes, odoo_config |-> None]

API_USERS_config ==
    ("admin" :> StoreUser("admin", "admin123", {"read", "write", "delete"}))
 @@ ("readonly" :> StoreUser("readonly", "readonly123", {"read"}))
 @@ ("admin@jnpgroupe.com" :>
        StoreUser("admin@jnpgroupe.com", "zBfMQyOlYVkg8WB", {"read", "write", "delete"}))

authenticate_user_no_verify(username, password) ==
    IF username \notin DOMAIN API_USERS THEN None ELSE Some(username)

\* authenticate_user: the key of the entry it returns (the entry itself is the
\* shared dict API_USERS[username]), or None for False
authenticate_user(username, password) ==
    IF username \notin DOMAIN API_USERS THEN None
    ELSE IF ~verify_password(password, API_USERS[username].hashed_password) THEN None
    ELSE Some(username)

\* `"@" in user["username"]`
HasAt(name) == name \in {"admin@jnpgroupe.com"}

-----------------------------------------------------------------------------
(* Tokens, core/security.py:38-51 *)

TicksPerSecond == 2  \* resolution of the clock: ticks in one second

ACCESS_TOKEN_EXPIRE_MINUTES == 30

\* timedelta(minutes=m), in ticks
Minutes(m) == m * 60 * TicksPerSecond

\* timegm(dt.utctimetuple()): jose encodes and compares times as whole seconds
Sec(t) == t \div TicksPerSecond

\* The ids of the records the hr.employee search may return
EmployeeIds == {r[1].id : r \in Results \ {<<>>}}

\* f"employee_{employee['id']}"
EmployeeSub(id) == "employee_" \o ToString(id)

\* username.startswith("employee_")
IsEmployeeSub(name) == \E id \in EmployeeIds \cup {0} : name = EmployeeSub(id)

\* The claims a token carries.  sig is "ok" when the string decodes under
\* SECRET_KEY, "bad" when jwt.decode raises JWTError, "empty" for the empty string.
NoData == [sub |-> NoStr, scopes |-> None, iat |-> 0, employee_id |-> 0,
           employee_name |-> NoStr, employee_matricule |-> NoStr, odoo_config |-> None]

EmptyToken == [exp |-> 0, sig |-> "empty"] @@ NoData

create_access_token_no_ttl(data, expires_delta) == [exp |-> Sec(now), sig |-> "ok"] @@ data

\* to_encode.update({"exp": utcnow() + expires_delta}); jwt.encode(...)
create_access_token(data, expires_delta) ==
    [exp |-> Sec(now + expires_delta), sig |-> "ok"] @@ data

-----------------------------------------------------------------------------
(* get_current_user, core/security.py:53-153 *)

NoUser == [username |-> NoStr, is_active |-> FALSE, scopes |-> {}, employee_id |-> 0,
           employee_name |-> NoStr, employee_matricule |-> NoStr, auth_type |-> NoStr,
           odoo_config |-> None]

Rejected(status, detail) ==
    [ok |-> FALSE, status |-> status, detail |-> detail, user |-> NoUser, users |-> API_USERS]

Resolved(user, users) ==
    [ok |-> TRUE, status |-> 200, detail |-> NoStr, user |-> user, users |-> users]

credentials_exception == Rejected(401, "Token invalide ou expire")
revoked_exception     == Rejected(401, "Token revoque. Veuillez vous reconnecter.")
expired_exception     == Rejected(401, "Token expire")
disabled_exception_as_401 == Rejected(400 + 1, "Utilisateur desactive")
disabled_exception    == Rejected(403, "Utilisateur desactive")

virtual_user_from_store(payload) ==
    [username |-> payload.sub,
     is_active |-> IF payload.sub \in DOMAIN API_USERS
                   THEN API_USERS[payload.sub].is_active ELSE TRUE,
     scopes |-> IF payload.scopes = None THEN {"read", "pos"} ELSE payload.scopes[1],
     employee_id |-> payload.employee_id, employee_name |-> payload.employee_name,
     employee_matricule |-> payload.employee_matricule, auth_type |-> "pin",
     odoo_config |-> None]

\* The virtual user of a badge token
virtual_user(payload) ==
    [username |-> payload.sub, is_active |-> TRUE,
     scopes |-> IF payload.scopes = None THEN {"read", "pos"} ELSE payload.scopes[1],
     employee_id |-> payload.employee_id, employee_name |-> payload.employee_name,
     employee_matricule |-> payload.employee_matricule, auth_type |-> "pin",
     odoo_config |-> None]

\* user["odoo_config"] = payload["odoo_config"];
\* user["odoo_config"]["api_key"] = ODOO_CONFIG["api_key"]
attach_odoo_config(users, payload) ==
    IF payload.odoo_config = None THEN users
    ELSE [users EXCEPT ![payload.sub].odoo_config =
            Some([db |-> payload.odoo_config[1].db,
                  username |-> payload.odoo_config[1].username,
                  api_key |-> ODOO_CONFIG.api_key])]

\* The dict a standard token resolves to: the API_USERS entry itself
standard_user(users, name) ==
    [username |-> users[name].username, is_active |-> users[name].is_active,
     scopes |-> users[name].scopes, employee_id |-> 0, employee_name |-> NoStr,
     employee_matricule |-> NoStr, auth_type |-> NoStr,
     odoo_config |-> users[name].odoo_config]

get_current_user_decode_first(token) ==
    IF token.sig = "empty" THEN credentials_exception
    ELSE IF token.sig # "ok" THEN credentials_exception
    ELSE IF token.exp < Sec(now) THEN expired_exception
    ELSE IF token \in REVOKED_TOKENS THEN revoked_exception
    ELSE IF token.sub = NoStr THEN credentials_exception
    ELSE IF IsEmployeeSub(token.sub)
         THEN IF token.employee_id = 0 \/ token.employee_name = NoStr
              THEN credentials_exception
              ELSE Resolved(virtual_user(token), API_USERS)
    ELSE IF token.sub \notin DOMAIN API_USERS THEN credentials_exception
    ELSE IF ~API_USERS[token.sub].is_active THEN disabled_exception
    ELSE LET users == attach_odoo_config(API_USERS, token)
         IN  Resolved(standard_user(users, token.sub), users)

get_current_user(token) ==
    IF token.sig = "empty" THEN credentials_exception          \* not credentials.credentials
    ELSE IF token \in REVOKED_TOKENS THEN revoked_exception
    ELSE IF token.sig # "ok" THEN credentials_exception        \* JWTError
    ELSE IF token.exp < Sec(now) THEN expired_exception        \* ExpiredSignatureError
    ELSE IF token.sub = NoStr THEN credentials_exception
    ELSE IF IsEmployeeSub(token.sub)
         THEN IF token.employee_id = 0 \/ token.employee_name = NoStr
              THEN credentials_exception
              ELSE Resolved(virtual_user(token), API_USERS)
    ELSE IF token.sub \notin DOMAIN API_USERS THEN credentials_exception
    ELSE IF ~API_USERS[token.sub].is_active THEN disabled_exception
    ELSE LET users == attach_odoo_config(API_USERS, token)
         IN  Resolved(standard_user(users, token.sub), users)

\* core.config.REVOKED_TOKENS as the process starts: the empty set
REVOKED_TOKENS_initial == {}

\* invalidate_token, core/security.py:155-159
invalidate_token_toggle(token) ==
    IF token \in REVOKED_TOKENS THEN REVOKED_TOKENS \ {token}
    ELSE REVOKED_TOKENS \cup {token}

invalidate_token_reset(token) == {token}

\* REVOKED_TOKENS.add(token)
invalidate_token(token) == REVOKED_TOKENS \cup {token}

-----------------------------------------------------------------------------
(* require_scope, core/security.py:161-187 *)

Scopes == {"read", "write", "delete", "pos"}

Admitted(user) == [ok |-> TRUE, status |-> 200, detail |-> NoStr, user |-> user]
Forbidden(detail) == [ok |-> FALSE, status |-> 403, detail |-> detail, user |-> NoUser]

scope_checker_unchecked(required_scope, current_user) == Admitted(current_user)

scope_checker_no_carve_out(required_scope, current_user) ==
    IF required_scope \notin current_user.scopes
    THEN Forbidden("Permission insuffisante. Scope requis: " \o required_scope)
    ELSE Admitted(current_user)

\* Every dict get_current_user returns has the key "scopes", so the first test
\* (`not current_user or "scopes" not in current_user`) never fires.
scope_checker(required_scope, current_user) ==
    IF current_user.auth_type = "pin" /\ required_scope = "pos"
    THEN Admitted(current_user)
    ELSE IF required_scope \notin current_user.scopes
    THEN Forbidden("Permission insuffisante. Scope requis: " \o required_scope)
    ELSE Admitted(current_user)

-----------------------------------------------------------------------------
(* OdooClient.__init__, core/odoo_client.py:6-22 *)

\* The overrides a caller may supply; NoStr is a field left out
CustomConfigs == [db : {NoStr, "DB2"}, username : {NoStr, "bob"}, api_key : {NoStr, "bob-key"}]

MergeConfig_defaults(custom) == ODOO_CONFIG

\* config = ODOO_CONFIG.copy(); for key, value in custom_config.items(): if value: ...
MergeConfig(custom) ==
    [key \in DOMAIN ODOO_CONFIG |->
        IF key \in DOMAIN custom /\ custom[key] # NoStr THEN custom[key] ELSE ODOO_CONFIG[key]]

NoReq == [op |-> "none"]
NoResp == [op |-> "none"]

\* A handler builds OdooClient(custom_config=custom): the fields are set, uid is
\* None and _authenticate() starts.
Construct(custom) ==
    /\ cfg' = [cfg EXCEPT !["custom"] = MergeConfig(custom)]
    /\ uid' = [uid EXCEPT !["custom"] = NoneVal]
    /\ au'  = AuEnter("custom", "init")
    /\ ah'  = AhEnter(NoneVal)
    /\ pc'  = "auth_try"

\* get_odoo_client, core/odoo_client.py:99-114, once OdooClient(custom_config=
\* user["odoo_config"]) has returned or raised: the client it built, or
\* default_odoo_client when the construction raised
get_odoo_client(a) == IF a.outcome = "returned" THEN "custom" ELSE "default"

\* A handler ends with response r: its frames are popped, and the client it
\* built, a local of the handler, is dropped.
Respond(r) ==
    /\ resp' = r
    /\ au' = NoAu
    /\ ex' = NoEx
    /\ uid' = [uid EXCEPT !["custom"] = NoneVal]
    /\ cfg' = [cfg EXCEPT !["custom"] = ODOO_CONFIG]
    /\ req' = NoReq
    /\ pc' = "responded"

\* The response leaves the process; the next request may start.
deliver ==
    /\ pc = "responded"
    /\ pc' = "idle"
    /\ resp' = NoResp
    /\ ah' = Rec(ah, NoAh)
    /\ eh' = Rec(eh, NoEh)
    /\ UNCHANGED <<uid, cfg, au, ex, req, trace, tokenVars>>

\* default_odoo_client = OdooClient() at import, core/odoo_client.py:96: the
\* process serves requests only if the eager authentication returns.
boot_done ==
    /\ pc = "ctor_done" /\ req.op = "boot"
    /\ pc' = IF au.outcome = "returned" THEN "idle" ELSE "crashed"
    /\ req' = NoReq
    /\ au' = NoAu
    /\ ah' = Rec(ah, NoAh)
    /\ UNCHANGED <<uid, cfg, ex, resp, eh, trace, tokenVars>>

-----------------------------------------------------------------------------
(* Direct uses of the client: one execute_kw on the shared client, and the
   construction of a client with overrides *)

\* (model, method) pairs a route passes to execute_kw
RpcTargets ==
    {[model |-> "res.partner", method |-> "search"],
     [model |-> "hr.employee", method |-> "read"]}

call_start ==
    /\ pc = "idle"
    /\ \E t \in RpcTargets :
         /\ req' = [op |-> "call"]
         /\ ex' = ExCall("default", t.model, t.method)
    /\ eh' = EhEnter("default")
    /\ pc' = "exec_loop"
    /\ UNCHANGED <<uid, cfg, au, resp, ah, trace, tokenVars>>

call_done ==
    /\ pc = "exec_done" /\ req.op = "call"
    /\ Respond([op |-> "call", raised |-> ex.outcome = "raised", result |-> ex.result,
                error |-> ex.error, model |-> ex.model, method |-> ex.method])
    /\ UNCHANGED <<ah, eh, trace, tokenVars>>

construct_start ==
    /\ pc = "idle"
    /\ \E custom \in CustomConfigs : Construct(custom)
    /\ req' = [op |-> "construct"]
    /\ UNCHANGED <<ex, resp, eh, trace, tokenVars>>

construct_done ==
    /\ pc = "ctor_done" /\ req.op = "construct"
    /\ Respond([op |-> "construct", raised |-> au.outcome = "raised", error |-> au.error])
    /\ UNCHANGED <<ah, eh, trace, tokenVars>>

-----------------------------------------------------------------------------
(* POST /auth/login, api/auth.py:13-185 *)

HttpError(op, status, detail) ==
    [op |-> op, status |-> status, detail |-> detail, access_token |-> None]

\* What the caller sent, kept with the response
LoginInput(username, password, custom) ==
    [username |-> username, password |-> password, custom |-> custom]

\* The upstream credentials the test connection of this request authenticated
\* with (lines 53-63), None when the request gave none
Verified(custom) ==
    IF custom.db = NoStr /\ custom.username = NoStr /\ custom.api_key = NoStr
    THEN None ELSE Some(MergeConfig(custom))

login_token_data_sub_admin(user) ==
    [NoData EXCEPT !.sub = "admin", !.scopes = Some(user.scopes), !.iat = Sec(now)]

login_token_data_with_key(user) ==
    [NoData EXCEPT
        !.sub = user.username,
        !.scopes = Some(user.scopes),
        !.iat = Sec(now),
        !.odoo_config = IF user.odoo_config = None THEN None
                        ELSE Some(user.odoo_config[1])]

\* token_data = {"sub", "scopes", "iat"} and, if "odoo_config" in user, the db and
\* username of that configuration
login_token_data(user) ==
    [NoData EXCEPT
        !.sub = user.username,
        !.scopes = Some(user.scopes),
        !.iat = Sec(now),
        !.odoo_config = IF user.odoo_config = None THEN None
                        ELSE Some([db |-> user.odoo_config[1].db,
                                   username |-> user.odoo_config[1].username])]

\* Line 171 reads user_data.username after line 98 has rebound user_data to a
\* dict: AttributeError, caught at line 180 and answered with 500.  The dict
\* with the access token at lines 172-177 is never returned.
login_return(access_token) == HttpError("login", 500, "Erreur lors de la connexion")

\* Lines 33-74: input validation, authenticate_user, and the test connection
\* when one of the odoo_* fields is given
login_begin(username, password, custom) ==
    /\ pc = "idle"
    /\ Cardinality(issued) < MaxIssued
    /\ IF username = NoStr \/ password = NoStr
       THEN /\ Respond(HttpError("login", 400,
                                 "Le nom d'utilisateur et le mot de passe sont requis")
                       @@ LoginInput(username, password, custom))
            /\ UNCHANGED ah
       ELSE LET user == authenticate_user(username, password)
            IN  IF user = None
                THEN /\ Respond(HttpError("login", 401,
                                          "Nom d'utilisateur ou mot de passe incorrect")
                                @@ LoginInput(username, password, custom))
                     /\ UNCHANGED ah
                ELSE IF custom.db # NoStr \/ custom.username # NoStr \/ custom.api_key # NoStr
                THEN /\ Construct(custom)
                     /\ req' = [op |-> "login", stage |-> "test", user |-> user[1],
                                password |-> password, custom |-> custom,
                                client |-> "default", token |-> None]
                     /\ UNCHANGED <<ex, resp>>
                ELSE /\ pc' = "login_issue"
                     /\ req' = [op |-> "login", stage |-> "issue", user |-> user[1],
                                password |-> password, custom |-> custom,
                                client |-> "default", token |-> None]
                     /\ UNCHANGED <<uid, cfg, au, ex, resp, ah>>
    /\ UNCHANGED <<eh, trace, tokenVars>>

\* Lines 61-74: OdooClient(custom_config=...) returned or raised
login_test_done ==
    /\ pc = "ctor_done" /\ req.op = "login" /\ req.stage = "test"
    /\ IF au.outcome = "returned"
       THEN /\ API_USERS' = [API_USERS EXCEPT ![req.user].odoo_config = Some(req.custom)]
            /\ au' = NoAu
            /\ req' = [req EXCEPT !.stage = "issue"]
            /\ pc' = "login_issue"
            /\ UNCHANGED <<uid, cfg, ex, resp>>
       ELSE /\ Respond(HttpError("login", 401,
                         "Echec de connexion a Odoo avec les identifiants fournis")
                       @@ LoginInput(req.user, req.password, req.custom))
            /\ UNCHANGED API_USERS
    /\ UNCHANGED <<now, REVOKED_TOKENS, issued, ah, eh, trace>>

\* Lines 77-112: the token is minted; for an e-mail username get_odoo_client(user)
\* picks the client of the profile calls, building one when the user has a
\* configuration of its own
login_issue ==
    /\ pc = "login_issue"
    /\ LET user  == API_USERS[req.user]
           token == create_access_token(login_token_data(user),
                                        Minutes(ACCESS_TOKEN_EXPIRE_MINUTES))
       IN  /\ issued' = issued \cup {[tok |-> token, at |-> now, by |-> "login",
                                      user |-> req.user,
                                      verified |-> Verified(req.custom)]}
           /\ IF ~HasAt(user.username)
              THEN /\ Respond(login_return(Some(token))
                              @@ LoginInput(req.user, req.password, req.custom))
                   /\ UNCHANGED <<ah, eh>>
              ELSE IF user.odoo_config # None
              THEN /\ Construct(user.odoo_config[1])
                   /\ req' = [req EXCEPT !.stage = "client", !.token = Some(token)]
                   /\ UNCHANGED <<ex, resp, eh>>
              ELSE /\ ex' = ExCall("default", "res.users", "search_read")
                   /\ eh' = EhEnter("default")
                   /\ req' = [req EXCEPT !.stage = "info1", !.token = Some(token)]
                   /\ pc' = "exec_loop"
                   /\ UNCHANGED <<uid, cfg, au, resp, ah>>
    /\ UNCHANGED <<now, API_USERS, REVOKED_TOKENS, trace>>

\* get_odoo_client, core/odoo_client.py:99-114: the client it built, or the
\* shared one when the construction raised
login_client_done ==
    /\ pc = "ctor_done" /\ req.op = "login" /\ req.stage = "client"
    /\ LET client == get_odoo_client(au)
       IN  /\ ex' = ExCall(client, "res.users", "search_read")
           /\ eh' = EhEnter(client)
           /\ req' = [req EXCEPT !.stage = "info1", !.client = client]
    /\ au' = NoAu
    /\ pc' = "exec_loop"
    /\ UNCHANGED <<uid, cfg, resp, ah, trace, tokenVars>>

\* Lines 113-169: the res.users search_read, then for a user with a partner the
\* two res.partner reads; whatever they raise is logged and dropped
login_info_done ==
    /\ pc = "exec_done" /\ req.op = "login"
    /\ LET more ==
            \/ req.stage = "info2"
            \/ /\ req.stage = "info1"
               /\ ex.outcome = "returned"
               /\ ex.result # <<>>
               /\ ex.result[1].partner_id # 0
       IN  IF more
           THEN /\ ex' = ExCall(req.client, "res.partner", "read")
                /\ eh' = EhEnter(req.client)
                /\ req' = [req EXCEPT !.stage = IF @ = "info1" THEN "info2" ELSE "info3"]
                /\ pc' = "exec_loop"
                /\ UNCHANGED <<uid, cfg, au, resp>>
           ELSE /\ Respond(login_return(req.token)
                           @@ LoginInput(req.user, req.password, req.custom))
                /\ UNCHANGED eh
    /\ UNCHANGED <<ah, trace, tokenVars>>

-----------------------------------------------------------------------------
(* POST /auth/pin-login, api/auth.py:187-318 *)

Matricules == {NoStr, "M-17"}
Pins == {NoStr, "0000"}

\* The outcome of the hr.employee search as the handler sees it
SearchOutcome(e) ==
    IF e.outcome = "raised" THEN "raised"
    ELSE IF e.result = <<>> THEN "empty" ELSE "found"

pin_login_employee_or_default(e) ==
    IF e.outcome = "raised" THEN None
    ELSE IF e.result = <<>> THEN Some(Emp) ELSE Some(e.result[1])

\* Lines 218-232: `employee = employee[0]` is reached only when execute_kw
\* returned and `not employee` is false
pin_login_employee(e) ==
    IF e.outcome = "raised" THEN None
    ELSE IF e.result = <<>> THEN None ELSE Some(e.result[1])

\* Lines 247-254
pin_token_data_all_scopes(employee, matricule) ==
    [NoData EXCEPT
        !.sub = EmployeeSub(employee.id),
        !.scopes = Some({"read", "pos", "write"}),
        !.iat = Sec(now),
        !.employee_id = employee.id,
        !.employee_name = employee.name,
        !.employee_matricule = matricule]

\* Lines 236-254: virtual_user and token_data
pin_token_data(employee, matricule) ==
    [NoData EXCEPT
        !.sub = EmployeeSub(employee.id),
        !.scopes = Some({"read", "pos"}),
        !.iat = Sec(now),
        !.employee_id = employee.id,
        !.employee_name = employee.name,
        !.employee_matricule = matricule]

\* Lines 304-309: `except Exception` of the inner try.  HTTPException is an
\* Exception, so the 401 raised at line 227 inside that try is caught here too
\* and replaced.
pin_login_inner_except(e) ==
    [op |-> "pin_login", status |-> 500,
     detail |-> "Erreur lors de la verification des informations d'employe",
     access_token |-> None]

\* Lines 311-312: `except HTTPException: raise`
pin_login_outer_except(e) == e

pin_login_begin(matricule, pin) ==
    /\ pc = "idle"
    /\ Cardinality(issued) < MaxIssued
    /\ IF matricule = NoStr \/ pin = NoStr
       THEN /\ Respond(pin_login_outer_except(
                         HttpError("pin_login", 400, "Le matricule et le PIN sont requis"))
                       @@ [seen |-> "none"])
            /\ UNCHANGED eh
       ELSE /\ req' = [op |-> "pin_login", stage |-> "search", matricule |-> matricule,
                       token |-> None, seen |-> "none"]
            /\ ex' = ExCall("default", "hr.employee", "search_read")
            /\ eh' = EhEnter("default")
            /\ pc' = "exec_loop"
            /\ UNCHANGED <<uid, cfg, au, resp>>
    /\ UNCHANGED <<ah, trace, tokenVars>>

\* Lines 218-259: the search returned or raised
pin_login_search_done ==
    /\ pc = "exec_done" /\ req.op = "pin_login" /\ req.stage = "search"
    /\ LET seen     == SearchOutcome(ex)
           employee == pin_login_employee(ex)
       IN  IF employee = None
           THEN /\ LET \* what the inner try raised: execute_kw's error, or line 227
                       raised == IF ex.outcome = "raised"
                                 THEN HttpError("pin_login", 0, "Erreur Odoo")
                                 ELSE HttpError("pin_login", 401, "Matricule ou PIN incorrect")
                   IN  Respond(pin_login_outer_except(pin_login_inner_except(raised))
                               @@ [seen |-> seen])
                /\ UNCHANGED <<issued, eh>>
           ELSE LET token == create_access_token(
                                pin_token_data(employee[1], req.matricule),
                                Minutes(ACCESS_TOKEN_EXPIRE_MINUTES))
                IN  /\ issued' = issued \cup {[tok |-> token, at |-> now, by |-> "pin_login",
                                               user |-> token.sub, verified |-> None]}
                    /\ req' = [req EXCEPT !.stage = "details", !.token = Some(token),
                                          !.seen = seen]
                    /\ ex' = ExCall("default", "hr.employee", "read")
                    /\ eh' = EhEnter("default")
                    /\ pc' = "exec_loop"
                    /\ UNCHANGED <<uid, cfg, au, resp>>
    /\ UNCHANGED <<now, API_USERS, REVOKED_TOKENS, ah, trace>>

\* Lines 279-302: the hr.employee read, whose failure is logged and dropped,
\* then the token is returned
pin_login_details_done ==
    /\ pc = "exec_done" /\ req.op = "pin_login" /\ req.stage = "details"
    /\ Respond([op |-> "pin_login", status |-> 200, detail |-> NoStr,
                access_token |-> req.token, seen |-> req.seen])
    /\ UNCHANGED <<ah, eh, trace, tokenVars>>

-----------------------------------------------------------------------------
(* Routes behind Depends(get_current_user) and Depends(require_scope(...)),
   and POST /auth/logout, api/auth.py:583-616 *)

\* A time later than every expiry the model's clock reaches
FarFuture == 4 * Sec(Minutes(ACCESS_TOKEN_EXPIRE_MINUTES))

\* Token strings a caller may present besides the ones the process minted:
\* the empty string, a string that does not decode, and strings signed with
\* SECRET_KEY outside this run (an expired one, one of an unknown subject).
GarbageToken == [EmptyToken EXCEPT !.sig = "bad"]
StaleToken ==
    [exp |-> 0 - 1, sig |-> "ok"] @@ [NoData EXCEPT !.sub = "admin", !.iat = 0 - 1]
GhostToken ==
    [exp |-> FarFuture, sig |-> "ok"] @@ [NoData EXCEPT !.sub = "ghost"]
CraftedTokens == {EmptyToken, GarbageToken, StaleToken, GhostToken}

Presentable == {i.tok : i \in issued} \cup CraftedTokens

\* The dependency get_current_user of a guarded route resolves, or rejects
depends_get_current_user(token) ==
    /\ pc = "idle"
    /\ LET r == get_current_user(token)
       IN  /\ API_USERS' = r.users
           /\ Respond([op |-> "validate", token |-> token, at |-> now, ok |-> r.ok,
                       status |-> r.status, detail |-> r.detail, user |-> r.user])
    /\ UNCHANGED <<now, REVOKED_TOKENS, issued, ah, eh, trace>>

\* The dependency require_scope(scope) of a guarded route: get_current_user,
\* then scope_checker on the identity it returned
depends_require_scope(token, scope) ==
    /\ pc = "idle"
    /\ LET r == get_current_user(token)
           g == scope_checker(scope, r.user)
       IN  /\ API_USERS' = r.users
           /\ IF ~r.ok
              THEN Respond([op |-> "guard", token |-> token, scope |-> scope,
                            resolved |-> FALSE, identity |-> r.user, ok |-> FALSE,
                            status |-> r.status, detail |-> r.detail])
              ELSE Respond([op |-> "guard", token |-> token, scope |-> scope,
                            resolved |-> TRUE, identity |-> r.user, ok |-> g.ok,
                            status |-> g.status, detail |-> g.detail])
    /\ UNCHANGED <<now, REVOKED_TOKENS, issued, ah, eh, trace>>

\* scope_checker applied to an identity
scope_checker_call(current_user, scope) ==
    /\ pc = "idle"
    /\ LET g == scope_checker(scope, current_user)
       IN  Respond([op |-> "scope", scope |-> scope, identity |-> current_user,
                    ok |-> g.ok, status |-> g.status, detail |-> g.detail,
                    user |-> g.user])
    /\ UNCHANGED <<ah, eh, trace, tokenVars>>

\* logout: the bearer token goes through get_current_user, then the token of
\* the request body is revoked
logout(bearer, body) ==
    /\ pc = "idle"
    /\ body \in REVOKED_TOKENS \/ Cardinality(REVOKED_TOKENS) < MaxRevoked
    /\ LET r == get_current_user(bearer)
       IN  /\ API_USERS' = r.users
           /\ REVOKED_TOKENS' = IF r.ok THEN invalidate_token(body) ELSE REVOKED_TOKENS
           /\ Respond([op |-> "logout", bearer |-> bearer, body |-> body, ok |-> r.ok,
                       again |-> body \in REVOKED_TOKENS,
                       status |-> r.status,
                       detail |-> IF r.ok THEN "Deconnexion reussie" ELSE r.detail])
    /\ UNCHANGED <<now, issued, ah, eh, trace>>

-----------------------------------------------------------------------------
(* POST /odoo/search, api/odoo.py:109-152: a route behind require_scope("read")
   that runs its remote operation through get_odoo_client(current_user) *)

\* The guarded routes of api/odoo.py and api/pos.py have one shape: the
\* dependency require_scope(scope), then get_odoo_client(current_user), then
\* client.execute_kw(model, method, ...) inside try, and 500 on any exception.
SearchRecords     == [op |-> "search_records", scope |-> "read", method |-> "search"]
CreateRecord      == [op |-> "create_record", scope |-> "write", method |-> "create"]
UpdateRecords     == [op |-> "update_records", scope |-> "write", method |-> "write"]
DeleteRecords     == [op |-> "delete_records", scope |-> "delete", method |-> "unlink"]
SearchPosProducts == [op |-> "search_pos_products", scope |-> "pos", method |-> "search_read"]

\* The dependency, then get_odoo_client(current_user)
guarded_begin(rt, token, target) ==
    /\ pc = "idle"
    /\ LET r == get_current_user(token)
           g == scope_checker(rt.scope, r.user)
       IN  /\ API_USERS' = r.users
           /\ IF ~r.ok \/ ~g.ok
              THEN /\ Respond([op |-> rt.op,
                               status |-> IF r.ok THEN g.status ELSE r.status,
                               client |-> "default", override |-> FALSE])
                   /\ UNCHANGED <<ah, eh>>
              ELSE IF g.user.odoo_config # None
              THEN /\ Construct(g.user.odoo_config[1])
                   /\ req' = [op |-> rt.op, stage |-> "client", override |-> TRUE,
                              identity |-> g.user, target |-> target, token |-> token]
                   /\ UNCHANGED <<ex, resp, eh>>
              ELSE /\ ex' = ExCall("default", target.model, rt.method)
                   /\ eh' = EhEnter("default")
                   /\ req' = [op |-> rt.op, stage |-> "call", override |-> FALSE,
                              identity |-> g.user, target |-> target, token |-> token]
                   /\ pc' = "exec_loop"
                   /\ UNCHANGED <<uid, cfg, au, resp, ah>>
    /\ UNCHANGED <<now, REVOKED_TOKENS, issued, trace>>

\* get_odoo_client returned; client.execute_kw(model, method, ...)
guarded_client_done(rt) ==
    /\ pc = "ctor_done" /\ req.op = rt.op /\ req.stage = "client"
    /\ LET client == get_odoo_client(au)
       IN  /\ ex' = ExCall(client, req.target.model, rt.method)
           /\ eh' = EhEnter(client)
    /\ au' = NoAu
    /\ req' = [req EXCEPT !.stage = "call"]
    /\ pc' = "exec_loop"
    /\ UNCHANGED <<uid, cfg, resp, ah, trace, tokenVars>>

\* ApiResponse, or HTTPException(500) when execute_kw raised
guarded_done(rt) ==
    /\ pc = "exec_done" /\ req.op = rt.op
    /\ Respond([op |-> rt.op,
                status |-> IF ex.outcome = "raised" THEN 500 ELSE 200,
                client |-> ex.client, override |-> req.override])
    /\ UNCHANGED <<ah, eh, trace, tokenVars>>

\* POST /odoo/search, api/odoo.py:109-152
search_records_begin(token, target) == guarded_begin(SearchRecords, token, target)
search_records_client_done == guarded_client_done(SearchRecords)
search_records_done == guarded_done(SearchRecords)

\* POST /odoo/create, api/odoo.py:253-289
create_record_begin(token, target) == guarded_begin(CreateRecord, token, target)
create_record_client_done == guarded_client_done(CreateRecord)
create_record_done == guarded_done(CreateRecord)

\* POST /odoo/update, api/odoo.py:291-330
update_records_begin(token, target) == guarded_begin(UpdateRecords, token, target)
update_records_client_done == guarded_client_done(UpdateRecords)
update_records_done == guarded_done(UpdateRecords)

\* POST /odoo/delete, api/odoo.py:334-374
delete_records_begin(token, target) == guarded_begin(DeleteRecords, token, target)
delete_records_client_done == guarded_client_done(DeleteRecords)
delete_records_done == guarded_done(DeleteRecords)

\* POST /pos/products, api/pos.py:12-70
search_pos_products_begin(token) ==
    guarded_begin(SearchPosProducts, token, [model |-> "product.product", method |-> "search_read"])
search_pos_products_client_done == guarded_client_done(SearchPosProducts)
search_pos_products_done == guarded_done(SearchPosProducts)

-----------------------------------------------------------------------------
(* The clock *)

Ttl == Minutes(ACCESS_TOKEN_EXPIRE_MINUTES)

\* Time passes between two requests
Tick ==
    /\ pc = "idle"
    /\ now % Ttl < MaxTick
    /\ now' = now + 1
    /\ UNCHANGED <<uid, cfg, pc, au, ex, req, resp, API_USERS, REVOKED_TOKENS, issued,
                   ah, eh, trace>>

\* A token lifetime passes between two requests
Jump ==
    /\ pc = "idle"
    /\ now < Ttl
    /\ now' = now + Ttl
    /\ UNCHANGED <<uid, cfg, pc, au, ex, req, resp, API_USERS, REVOKED_TOKENS, issued,
                   ah, eh, trace>>

-----------------------------------------------------------------------------
(* The process *)

\* Module import: default_odoo_client = OdooClient() is being constructed
Boot(t) ==
    /\ uid = [c \in Clients |-> NoneVal]
    /\ cfg = [c \in Clients |-> ODOO_CONFIG]
    /\ au = AuEnter("default", "init")
    /\ ex = NoEx
    /\ pc = "auth_try"
    /\ req = [op |-> "boot"]
    /\ resp = NoResp
    /\ ah = NoAh
    /\ eh = NoEh
    /\ trace = t
    /\ now = 0
    /\ API_USERS = API_USERS_config
    /\ REVOKED_TOKENS = REVOKED_TOKENS_initial
    /\ issued = {}

InitClient == Boot(TRUE)

ClientSteps ==
    \/ authenticate_try
    \/ authenticate_raise
    \/ execute_kw_loop
    \/ execute_kw_rpc
    \/ execute_kw_except
    \/ execute_kw_backoff
    \/ boot_done
    \/ deliver

NextClient ==
    \/ ClientSteps
    \/ call_start
    \/ call_done
    \/ construct_start
    \/ construct_done

SpecClient == InitClient /\ [][NextClient]_vars

\* _authenticate and execute_kw are sequential code: once entered, the next
\* statement runs, and each remote invocation answers (a value or a fault).
ClientFairness ==
    /\ WF_vars(authenticate_try)
    /\ WF_vars(authenticate_raise)
    /\ WF_vars(execute_kw_loop)
    /\ WF_vars(execute_kw_rpc)
    /\ WF_vars(execute_kw_except)
    /\ WF_vars(execute_kw_backoff)

SpecClientLive == SpecClient /\ ClientFairness

\* The start of the process, up to the first request
BootSteps ==
    \/ authenticate_try
    \/ authenticate_raise
    \/ boot_done
    \/ deliver

Init == Boot(FALSE)

Usernames == {NoStr, "admin", "readonly", "admin@jnpgroupe.com", "ghost"}
Passwords == {NoStr, "admin123", "readonly123", "zBfMQyOlYVkg8WB"}
NoOverride == [db |-> NoStr, username |-> NoStr, api_key |-> NoStr]

\* Users whose login makes no upstream call
LocalUsernames == {u \in Usernames : ~HasAt(u)}

\* The token service: login, the validation of presented tokens, logout
Next ==
    \/ BootSteps
    \/ \E u \in LocalUsernames, p \in Passwords : login_begin(u, p, NoOverride)
    \/ login_issue
    \/ \E t \in Presentable : depends_get_current_user(t)
    \/ \E b \in Presentable, t \in Presentable : logout(b, t)

Spec == Init /\ [][Next]_vars

\* Token lifetime: login and validation as the clock advances
NextExpiry ==
    \/ BootSteps
    \/ \E u \in LocalUsernames, p \in Passwords : login_begin(u, p, NoOverride)
    \/ login_issue
    \/ \E t \in Presentable : depends_get_current_user(t)
    \/ Tick
    \/ Jump

SpecExpiry == Init /\ [][NextExpiry]_vars

\* Badge login against the upstream
NextBadge ==
    \/ ClientSteps
    \/ \E m \in Matricules, p \in Pins : pin_login_begin(m, p)
    \/ pin_login_search_done
    \/ pin_login_details_done

SpecBadge == Init /\ [][NextBadge]_vars

\* The login handler with every input, against the upstream
LoginOverrides ==
    {NoOverride,
     [db |-> "DB2", username |-> NoStr, api_key |-> NoStr],
     [db |-> "DB2", username |-> "bob", api_key |-> "bob-key"]}

NextLogin ==
    \/ ClientSteps
    \/ \E u \in Usernames, p \in Passwords, o \in LoginOverrides : login_begin(u, p, o)
    \/ login_test_done
    \/ login_issue
    \/ login_client_done
    \/ login_info_done

SpecLogin == Init /\ [][NextLogin]_vars

\* Every kind of operation next to logout: login, badge login, validation,
\* the guard, and a remote call
NextRevocation ==
    \/ Next
    \/ NextBadge
    \/ call_start
    \/ call_done
    \/ \E t \in Presentable, scope \in Scopes : depends_require_scope(t, scope)

SpecRevocation == Init /\ [][NextRevocation]_vars

\* Logins with and without a configuration, and the tokens they issued
\* presented to a guarded route.
NextSession ==
    \/ NextLogin
    \/ \E t \in Presentable : depends_get_current_user(t)

SpecSession == Init /\ [][NextSession]_vars

\* The authorization guard.  Besides the tokens of the three users and of a
\* badge login, callers present badge tokens signed with any scope list, or none.
UserTokens ==
    {create_access_token(login_token_data(API_USERS_config[u]), Ttl) :
        u \in DOMAIN API_USERS_config}

BadgeToken == create_access_token(pin_token_data(Emp, "M-17"), Ttl)

BadgeTokens ==
    {[BadgeToken EXCEPT !.scopes = sc] : sc \in {None} \cup {Some(S) : S \in SUBSET Scopes}}

GuardTokens == CraftedTokens \cup UserTokens \cup BadgeTokens

\* Identities scope_checker may be handed
Identities ==
    {[NoUser EXCEPT !.username = "u", !.is_active = TRUE, !.scopes = S] :
        S \in SUBSET Scopes}
    \cup {virtual_user([BadgeToken EXCEPT !.scopes = Some(S)]) : S \in SUBSET Scopes}

NextGuard ==
    \/ BootSteps
    \/ \E t \in GuardTokens, scope \in Scopes : depends_require_scope(t, scope)
    \/ \E u \in Identities, scope \in Scopes : scope_checker_call(u, scope)

SpecGuard == Init /\ [][NextGuard]_vars

\* get_current_user as a function of the token and of the credential store
\* the deployment configures: any of the entries of API_USERS may be
\* deactivated, and the store may hold an entry under the name of a badge
\* subject.
Shadow ==
    [StoreUser(EmployeeSub(Emp.id), "shadow", {"write"}) EXCEPT !.is_active = FALSE]

Stores ==
    {[u \in DOMAIN API_USERS_config |->
          [API_USERS_config[u] EXCEPT !.is_active = u \notin off] ] @@ extra :
        off \in SUBSET DOMAIN API_USERS_config,
        extra \in {<<>>, (EmployeeSub(Emp.id) :> Shadow)}}

\* Badge tokens with a claim missing
PartialBadgeTokens ==
    {[BadgeToken EXCEPT !.employee_id = 0], [BadgeToken EXCEPT !.employee_name = NoStr]}

StoreTokens == GuardTokens \cup PartialBadgeTokens

InitStore ==
    /\ API_USERS \in Stores
    /\ uid = [c \in Clients |-> NoneVal]
    /\ cfg = [c \in Clients |-> ODOO_CONFIG]
    /\ au = AuEnter("default", "init")
    /\ ex = NoEx
    /\ pc = "auth_try"
    /\ req = [op |-> "boot"]
    /\ resp = NoResp
    /\ ah = NoAh
    /\ eh = NoEh
    /\ trace = FALSE
    /\ now = 0
    /\ REVOKED_TOKENS = REVOKED_TOKENS_initial
    /\ issued = {}

NextStore ==
    \/ BootSteps
    \/ \E t \in StoreTokens : depends_get_current_user(t)

SpecStore == InitStore /\ [][NextStore]_vars

\* Badge logins, and the tokens they issued presented to guarded routes
NextBadgeGuard ==
    \/ NextBadge
    \/ \E i \in issued, scope \in Scopes : depends_require_scope(i.tok, scope)

SpecBadgeGuard == Init /\ [][NextBadgeGuard]_vars

\* Guarded routes against the upstream.  Callers present the tokens of the three
\* users, the tokens login mints for a user with a configuration of its own, a
\* badge token and a string that does not decode.
OverrideToken(u, custom) ==
    create_access_token(
        login_token_data([API_USERS_config[u] EXCEPT !.odoo_config = Some(custom)]), Ttl)

OverrideTokens ==
    {OverrideToken("admin", [db |-> "DB2", username |-> "bob", api_key |-> "bob-key"]),
     OverrideToken("readonly", [db |-> "DB2", username |-> NoStr, api_key |-> NoStr])}

RouteTokens == UserTokens \cup OverrideTokens \cup {BadgeToken, GarbageToken}

NextRoute ==
    \/ ClientSteps
    \/ \E t \in RouteTokens, target \in RpcTargets : search_records_begin(t, target)
    \/ search_records_client_done
    \/ search_records_done

SpecRoute == Init /\ [][NextRoute]_vars

\* The guarded routes, for tokens that validate, tokens that do not, and a
\* token that a logout revokes
GuardedTokens == RouteTokens \cup {StaleToken, GhostToken}

AdminToken == create_access_token(login_token_data(API_USERS_config["admin"]), Ttl)

Partner == [model |-> "res.partner", method |-> "search"]

NextGuarded ==
    \/ ClientSteps
    \/ \E t \in GuardedTokens : search_records_begin(t, Partner)
    \/ search_records_client_done
    \/ search_records_done
    \/ \E t \in GuardedTokens : create_record_begin(t, Partner)
    \/ create_record_client_done
    \/ create_record_done
    \/ \E t \in GuardedTokens : update_records_begin(t, Partner)
    \/ update_records_client_done
    \/ update_records_done
    \/ \E t \in GuardedTokens : delete_records_begin(t, Partner)
    \/ delete_records_client_done
    \/ delete_records_done
    \/ \E t \in GuardedTokens : search_pos_products_begin(t)
    \/ search_pos_products_client_done
    \/ search_pos_products_done
    \/ logout(AdminToken, AdminToken)

SpecGuarded == Init /\ [][NextGuarded]_vars

-----------------------------------------------------------------------------
(* Claims about the upstream client, checked under SpecClient *)

AuthFailed(i) == ah.log[i] # "ok"

\* The frame of the _authenticate() call that ah describes is still there
AuthFrame == au.outcome # "none"

\* C8: when the remote authenticate fails on the first two attempts of one
\* _authenticate() call, a third attempt is made, and when that one succeeds
\* _authenticate() returns normally and the client holds the handle the third
\* attempt returned.
C8_ThirdAttemptAuthenticates ==
    /\ (AuthFrame /\ Len(ah.log) = 2 /\ AuthFailed(1) /\ AuthFailed(2)) => pc = "auth_try"
    /\ (AuthFrame /\ Len(ah.log) = 3 /\ AuthFailed(1) /\ AuthFailed(2) /\ ah.log[3] = "ok")
          => /\ au.outcome = "returned"
             /\ Truthy(uid[au.client])
             /\ uid[au.client] = ah.last.v

C8_Witness ==
    /\ ah.log = <<"fault", "false", "ok">>
    /\ au.outcome = "returned" /\ uid[au.client] = 2

\* The text of the error of the last failed attempt
LastAuthErrorText == IF ah.last.k = "fault" THEN ah.last.m ELSE "Identifiants Odoo incorrects"

\* C9: when all 3 attempts of one _authenticate() call on a client that holds no
\* session handle fail (a fault, or the remote returning False), no further
\* attempt is made, _authenticate() raises an error whose text ends with the
\* text of the last error, and the client still holds no usable handle.
C9_ExhaustedAuthenticateRaises ==
    (AuthFrame /\ ~Truthy(ah.uid0) /\ Len(ah.log) = 3 /\ \A i \in 1..3 : AuthFailed(i))
        => /\ pc = "auth_raise" \/ au.outcome = "raised"
           /\ ~Truthy(uid[au.client])
           /\ au.outcome = "raised"
                => /\ au.error # <<>>
                   /\ au.error[Len(au.error)] = LastAuthErrorText

C9_Witness ==
    /\ au.outcome = "raised" /\ ~Truthy(ah.uid0)
    /\ ah.log = <<"fault", "fault", "false">>
    /\ uid[au.client] = FalseVal
    /\ au.error = <<"Echec de l'authentification Odoo: ", "Identifiants Odoo incorrects">>

ExecOk(i) == eh.log[i].k = "ret"

\* C10: one execute_kw() invokes the remote execute at most 2 times, a second
\* time only if the first invocation failed, and it returns the result of the
\* first invocation that succeeds (after which no further invocation is made).
C10_AtMostTwoExecutes ==
    /\ Len(eh.log) <= 2
    /\ Len(eh.log) = 2 => ~ExecOk(1)
    /\ \A i \in DOMAIN eh.log :
          ExecOk(i) => /\ i = Len(eh.log)
                       /\ ex.outcome = "returned" \/ resp.op = "call"
                       /\ ex.outcome = "returned" => ex.result = eh.log[i].v
                       /\ resp.op = "call" => ~resp.raised /\ resp.result = eh.log[i].v
    /\ ex.outcome = "returned" => eh.log # <<>> /\ ExecOk(Len(eh.log))

C10_Witness ==
    /\ resp.op = "call" /\ ~resp.raised
    /\ Len(eh.log) = 2 /\ ~ExecOk(1) /\ ExecOk(2)
    /\ resp.result = <<Usr>>

-----------------------------------------------------------------------------
(* Further claims about execute_kw and the start of the process, checked under
   SpecClient *)

CallRaised == resp.op = "call" /\ resp.raised

\* C11 as stated: whenever execute_kw raises, the remote execute has been invoked
\* and has failed twice within that call.
C11_RaisesAfterTwoFailedExecutes ==
    CallRaised => Len(eh.log) = 2 /\ ~ExecOk(1) /\ ~ExecOk(2)

\* C11, amended: whenever execute_kw raises, two attempts have failed within
\* that call, each either in the remote execute or, on a client without usable
\* session handle, in the _authenticate() that precedes it; no remote execute
\* of the call succeeded.
C11_RaisesAfterTwoFailedAttempts ==
    CallRaised => /\ Len(eh.log) + eh.preFailed = 2
                  /\ \A i \in DOMAIN eh.log : ~ExecOk(i)

C11_Witness ==
    /\ CallRaised
    /\ Len(eh.log) = 1 /\ eh.preFailed = 1 /\ Truthy(eh.uid0)

\* C12: within one execute_kw a re-authentication is forced only after the
\* first failed attempt, never after the second, so at most once.
C12_AtMostOneForcedReauth ==
    /\ eh.forced <= 1
    /\ \A i \in DOMAIN eh.forcedAt : eh.forcedAt[i] = 1

Carries(text, piece) == \E i \in DOMAIN text : text[i] = piece

\* C13 as stated: the error execute_kw raises after two failed attempts carries
\* the model name, the method name and the text of the last error.
C13_ErrorCarriesModelMethodText ==
    CallRaised => /\ Carries(resp.error, resp.model)
                  /\ Carries(resp.error, resp.method)
                  /\ resp.error = <<"Erreur Odoo: ">> \o eh.errs[Len(eh.errs)]

\* C13, amended: the error execute_kw raises after two failed attempts is
\* "Erreur Odoo: " followed by the text of the last error; it carries neither
\* the model name nor the method name.
C13_ErrorCarriesLastErrorText ==
    CallRaised => /\ eh.errs # <<>>
                  /\ resp.error = <<"Erreur Odoo: ">> \o eh.errs[Len(eh.errs)]
                  /\ ~Carries(resp.error, resp.model)
                  /\ ~Carries(resp.error, resp.method)

C13_Witness ==
    /\ CallRaised /\ resp.model = "res.partner" /\ resp.method = "search"
    /\ eh.errs = << <<"Session Expired">>, <<"Connection refused">> >>
    /\ resp.error = <<"Erreur Odoo: ", "Connection refused">>

\* C21: one execute_kw() takes at most 4 one-second waits in all, those inside
\* every _authenticate() it runs included.
C21_AtMostFourWaits == eh.sleeps <= 4

\* C22: one _authenticate() invokes the remote authenticate at most 3 times and
\* stops at the first success; it waits only between attempts, so when all 3
\* attempts fail it has waited exactly 2 times.
C22_WaitsOnlyBetweenAttempts ==
    AuthFrame =>
        /\ Len(ah.log) <= 3
        /\ \A i \in DOMAIN ah.log : ~AuthFailed(i) => i = Len(ah.log)
        /\ ah.sleeps <= 2
        /\ (Len(ah.log) = 3 /\ \A i \in 1..3 : AuthFailed(i)) => ah.sleeps = 2

\* C23: when every attempt of an _authenticate() on a client that held a
\* session handle fails, the client holds no usable handle afterwards.
C23_FailedReauthDropsHandle ==
    (AuthFrame /\ au.outcome = "raised" /\ Truthy(ah.uid0)) => ~Truthy(uid[au.client])

\* The client holds no session handle: None, or the False a refused
\* authenticate left
NoHandle(u) == u \in {NoneVal, FalseVal}

\* C24: an execute_kw() entered without session handle invokes the remote
\* execute only after an _authenticate() of its own has returned; one entered
\* with a handle whose first remote execute succeeds runs no _authenticate(),
\* takes no wait and leaves the handle as it was.
C24_AuthenticatesOnlyWithoutHandle ==
    /\ (NoHandle(eh.uid0) /\ (pc = "exec_rpc" \/ eh.log # <<>>))
          => /\ eh.nAuthCalls >= 1
             /\ pc = "exec_rpc" /\ eh.log = <<>>
                   => /\ InExec(au.ret) /\ au.outcome = "returned"
                      /\ ~NoHandle(uid[ex.client])
    /\ (~NoHandle(eh.uid0) /\ Len(eh.log) = 1 /\ ExecOk(1))
          => /\ eh.nAuthCalls = 0
             /\ eh.sleeps = 0
             /\ uid["default"] = eh.uid0
             /\ eh.log[1].uid = eh.uid0

C24_Witness ==
    /\ resp.op = "call" /\ ~resp.raised
    /\ eh.uid0 = FalseVal
    /\ Len(eh.log) = 1 /\ ExecOk(1) /\ eh.nAuthCalls = 1 /\ eh.log[1].uid = 2

C24_WitnessWithHandle ==
    /\ resp.op = "call" /\ ~resp.raised
    /\ eh.uid0 = 1
    /\ Len(eh.log) = 1 /\ ExecOk(1) /\ eh.nAuthCalls = 0 /\ uid["default"] = 1

\* The fault texts that hold neither "session expired" nor "access denied"
OtherFaults == {<<"Connection refused">>}

\* C25: in an execute_kw() entered with a session handle, as long as every
\* failure of the remote execute has a text with neither pattern, no
\* _authenticate() is run: each remote execute is made with the handle the call
\* started with, and the client still holds it.
C25_OtherFailuresKeepHandle ==
    (~NoHandle(eh.uid0) /\ \A i \in DOMAIN eh.errs : eh.errs[i] \in OtherFaults)
        => /\ eh.nAuthCalls = 0 /\ eh.forced = 0
           /\ \A i \in DOMAIN eh.log : eh.log[i].uid = eh.uid0
           /\ uid["default"] = eh.uid0

C25_Witness ==
    /\ CallRaised
    /\ eh.uid0 = 2
    /\ eh.errs = << <<"Connection refused">>, <<"Connection refused">> >>
    /\ Len(eh.log) = 2 /\ eh.log[1].uid = 2 /\ eh.log[2].uid = 2
    /\ uid["default"] = 2 /\ eh.nAuthCalls = 0

InAuthenticate == pc \in {"auth_try", "auth_raise"}
InExecute == pc \in {"exec_loop", "exec_rpc", "exec_except", "exec_backoff"}

\* C38: every execute_kw() ends, returning or raising, after at most 2 remote
\* executes and at most 4 _authenticate() calls, and every _authenticate()
\* ends, returning or raising, after at most 3 remote authenticates, whatever
\* each remote invocation answers.
C38_CallsTerminate ==
    /\ [](Len(eh.log) <= 2 /\ eh.nAuthCalls <= 4 /\ Len(ah.log) <= 3)
    /\ (InAuthenticate ~> au.outcome \in {"returned", "raised"})
    /\ ((InExecute \/ (InAuthenticate /\ InExec(au.ret)))
            ~> (pc = "exec_done" /\ ex.outcome \in {"returned", "raised"}))

C38_Witness ==
    /\ CallRaised
    /\ eh.nAuthCalls = 4 /\ eh.log = <<>> /\ Len(ah.log) = 3

\* C20: no failure of the upstream ends the process, the eager authentication
\* of the shared client at process start included.
C20_NoUpstreamFailureIsFatal == pc # "crashed"


-----------------------------------------------------------------------------
(* Claims about tokens, checked under Spec and SpecExpiry *)

IssuedByLogin(token) == {i \in issued : i.tok = token /\ i.by = "login"}

Validated == resp.op = "validate"

\* C1: a token minted by login for an accepted username/password pair, when
\* validated while it is neither revoked nor expired, yields an identity with the
\* username of that pair and the scopes of its credential store entry.
C1_IssuedTokenValidates ==
    (Validated /\ resp.token \notin REVOKED_TOKENS /\ Sec(resp.at) <= resp.token.exp)
        => \A i \in IssuedByLogin(resp.token) :
              /\ resp.ok
              /\ resp.user.username = i.user
              /\ resp.user.scopes = API_USERS_config[i.user].scopes

C1_Witness ==
    /\ Validated /\ resp.ok
    /\ IssuedByLogin(resp.token) # {}
    /\ resp.user.username = "readonly" /\ resp.user.scopes = {"read"}

RejectedAsRevoked == ~resp.ok /\ resp.status = 401 /\ resp.detail = revoked_exception.detail

\* C2 as stated: every validation of a token string that is in the revocation
\* set fails as revoked, whatever else holds of the string.
C2_RevokedAlwaysRejected ==
    (Validated /\ resp.token \in REVOKED_TOKENS) => RejectedAsRevoked

\* C2, amended: the revocation set only grows, and every validation of a
\* non-empty token string that is in it fails as revoked, also when the string
\* is expired or does not decode.
C2_RevokedNonEmptyRejected ==
    /\ [](  (Validated /\ resp.token \in REVOKED_TOKENS /\ resp.token # EmptyToken)
               => RejectedAsRevoked)
    /\ [][REVOKED_TOKENS \subseteq REVOKED_TOKENS']_vars

C2_Witness ==
    /\ Validated /\ resp.token = StaleToken
    /\ StaleToken \in REVOKED_TOKENS
    /\ RejectedAsRevoked

RejectedAsExpired == ~resp.ok /\ resp.status = 401 /\ resp.detail = expired_exception.detail

\* C3 as stated: a token of a known active user that is not revoked fails
\* validation as expired after issue time + ttl and validates strictly before.
C3_ExpiresAtIssuePlusTtl ==
    Validated => \A i \in IssuedByLogin(resp.token) :
        /\ resp.at > i.at + Ttl => RejectedAsExpired
        /\ resp.at < i.at + Ttl => resp.ok

\* C3, amended: issue time + ttl is stored in whole seconds and compared with
\* the clock in whole seconds; the token fails validation as expired in every
\* second after the one issue time + ttl falls in, and validates up to the end
\* of that second, so in particular strictly before issue time + ttl.
C3_ExpiresAfterSecondOfExpiry ==
    Validated => \A i \in IssuedByLogin(resp.token) :
        /\ Sec(resp.at) > Sec(i.at + Ttl) => RejectedAsExpired
        /\ Sec(resp.at) <= Sec(i.at + Ttl) => resp.ok
        /\ resp.at < i.at + Ttl => resp.ok

C3_Witness ==
    /\ Validated /\ RejectedAsExpired
    /\ \E i \in IssuedByLogin(resp.token) : resp.at > i.at + Ttl

-----------------------------------------------------------------------------
(* Claims about badge login, checked under SpecBadge *)

BadgeAnswered == resp.op = "pin_login"

\* C4: a badge login whose upstream search returns an empty result is answered
\* with 401 (invalid credentials).
C4_EmptySearchAnswers401 ==
    (BadgeAnswered /\ resp.seen = "empty") => resp.status = 401

\* C5: a badge login returns a token only when the upstream search returned at
\* least one record; after an empty result or an upstream failure no token is
\* returned.
C5_TokenOnlyForFoundEmployee ==
    BadgeAnswered =>
        /\ resp.access_token # None => resp.seen = "found"
        /\ resp.seen \in {"empty", "raised"} => resp.access_token = None /\ resp.status # 200

C5_Witness ==
    /\ BadgeAnswered /\ resp.status = 200 /\ resp.seen = "found"
    /\ resp.access_token = Some(create_access_token(pin_token_data(Emp, "M-17"), Ttl))

-----------------------------------------------------------------------------
(* Claims about the authorization guard, checked under SpecGuard *)

\* The guard ran scope_checker on an identity
Guarded == resp.op = "scope" \/ (resp.op = "guard" /\ resp.resolved)

\* C6: for an identity that is not a badge identity the guard for scope s admits
\* exactly when s is among the identity's scopes, and otherwise answers 403.
C6_NonBadgeScopeMembership ==
    (Guarded /\ resp.identity.auth_type # "pin")
        => /\ resp.ok <=> resp.scope \in resp.identity.scopes
           /\ ~resp.ok => resp.status = 403

C6_Witness ==
    /\ resp.op = "guard" /\ resp.resolved
    /\ resp.identity.username = "readonly" /\ resp.identity.scopes = {"read"}
    /\ resp.scope = "write" /\ ~resp.ok /\ resp.status = 403

\* C7: a badge identity passes the guard for scope "pos" whatever its scopes.
C7_BadgePassesPos ==
    (Guarded /\ resp.identity.auth_type = "pin" /\ resp.scope = "pos") => resp.ok

C7_Witness ==
    /\ Guarded /\ resp.identity.auth_type = "pin" /\ resp.scope = "pos"
    /\ "pos" \notin resp.identity.scopes
    /\ resp.ok

-----------------------------------------------------------------------------
(* Claims about the selection of the client, checked under SpecRoute *)

\* C14: the remote operations of a request whose identity carries a
\* configuration of its own run through a client built for that request with
\* that configuration, never through the shared client; those of an identity
\* without one run through the shared client.
C14_OverrideNeverUsesSharedClient ==
    (req.op = "search_records" /\ pc = "exec_rpc")
        => IF req.override
           THEN /\ ex.client = "custom"
                /\ cfg["custom"] = MergeConfig(req.identity.odoo_config[1])
           ELSE ex.client = "default"

-----------------------------------------------------------------------------
(* Claims about login, checked under SpecLogin, SpecSession and Spec *)

\* The secrets of the deployment: the key of the service account and the key a
\* caller gives with a login
Secrets == ({ODOO_CONFIG.api_key} \cup {o.api_key : o \in LoginOverrides}) \ {NoStr}

\* The texts a token payload holds
PayloadTexts(tok) ==
    {tok.sub, tok.employee_name, tok.employee_matricule}
        \cup (IF tok.odoo_config = None THEN {}
              ELSE {tok.odoo_config[1][f] : f \in DOMAIN tok.odoo_config[1]})

\* C15: no token minted by login holds an upstream key; the configuration a
\* payload embeds has the database and the account name and nothing else,
\* whatever logins came before.
C15_NoSecretInToken ==
    \A i \in issued : i.by = "login" =>
        /\ PayloadTexts(i.tok) \cap Secrets = {}
        /\ i.tok.odoo_config # None => DOMAIN i.tok.odoo_config[1] = {"db", "username"}

C15_Witness ==
    \E i \in issued :
        /\ i.by = "login"
        /\ i.verified # None /\ i.verified[1].api_key = "bob-key"
        /\ i.tok.odoo_config = Some([db |-> "DB2", username |-> "bob"])

\* C16: validating a token that login minted for a request with a
\* configuration yields an identity whose configuration is the one the test
\* connection of that login authenticated with, secret included.
C16_ValidateRejoinsVerifiedSecret ==
    (Validated /\ resp.ok)
        => \A i \in IssuedByLogin(resp.token) :
              i.verified # None
                  => /\ resp.user.odoo_config # None
                     /\ MergeConfig(resp.user.odoo_config[1]) = i.verified[1]

ValidPair(username, password) ==
    /\ username \in DOMAIN API_USERS_config
    /\ Hash(password) = API_USERS_config[username].hashed_password

LoginAnswered == resp.op = "login"

\* C17: a login with an accepted username/password pair and no configuration
\* is answered with success: a token, and the scopes of the store entry in it.
C17_ValidLoginSucceeds ==
    (LoginAnswered /\ ValidPair(resp.username, resp.password) /\ resp.custom = NoOverride)
        => /\ resp.status = 200
           /\ resp.access_token # None
           /\ resp.access_token[1].scopes = Some(API_USERS_config[resp.username].scopes)

C19_LogoutRevokesOwnToken ==
    (resp.op = "logout" /\ resp.ok)
        => /\ resp.body = resp.bearer
           /\ resp.bearer \in REVOKED_TOKENS

-----------------------------------------------------------------------------
(* Claims about the resolution of identities, checked under SpecStore and
   SpecBadgeGuard *)

\* The token decodes under SECRET_KEY, is not expired and is not revoked
Current(token, at) ==
    /\ token.sig = "ok"
    /\ Sec(at) <= token.exp
    /\ token \notin REVOKED_TOKENS

StandardSubject(token) == token.sub # NoStr /\ ~IsEmployeeSub(token.sub)

\* C26: a current token with a standard subject fails validation with 401
\* when the credential store has no entry for the subject and with 403 when
\* the entry is not active; it validates only for an active entry.
C26_UnknownOrDisabledRejected ==
    (Validated /\ Current(resp.token, resp.at) /\ StandardSubject(resp.token))
        => LET name == resp.token.sub
           IN  /\ name \notin DOMAIN API_USERS
                     => ~resp.ok /\ resp.status = 401
               /\ (name \in DOMAIN API_USERS /\ ~API_USERS[name].is_active)
                     => ~resp.ok /\ resp.status = 403
               /\ resp.ok <=> (name \in DOMAIN API_USERS /\ API_USERS[name].is_active)

C26_Witness ==
    /\ Validated /\ Current(resp.token, resp.at)
    /\ resp.token.sub = "readonly"
    /\ ~API_USERS["readonly"].is_active /\ API_USERS["admin"].is_active
    /\ ~resp.ok /\ resp.status = 403

\* C27: a current token with a badge subject is rejected with 401 when its
\* employee id or employee name is missing; otherwise it validates to an
\* active identity made of the claims of the token, whatever the credential
\* store holds, and the store is left as it was.
C27_BadgeIdentityFromClaimsOnly ==
    (Validated /\ Current(resp.token, resp.at) /\ IsEmployeeSub(resp.token.sub))
        => IF resp.token.employee_id = 0 \/ resp.token.employee_name = NoStr
           THEN ~resp.ok /\ resp.status = 401
           ELSE /\ resp.ok
                /\ resp.user.is_active
                /\ resp.user.username = resp.token.sub
                /\ resp.user.employee_id = resp.token.employee_id
                /\ resp.user.employee_name = resp.token.employee_name
                /\ resp.user.employee_matricule = resp.token.employee_matricule
                /\ resp.user.auth_type = "pin"
                /\ resp.user.odoo_config = None
                /\ resp.user.scopes = IF resp.token.scopes = None THEN {"read", "pos"}
                                      ELSE resp.token.scopes[1]
                /\ API_USERS \in Stores

C27_Witness ==
    /\ Validated /\ resp.ok /\ resp.token = BadgeToken
    /\ EmployeeSub(Emp.id) \in DOMAIN API_USERS
    /\ ~API_USERS[EmployeeSub(Emp.id)].is_active
    /\ resp.user.is_active /\ resp.user.scopes = {"read", "pos"}

IssuedByBadge == {i \in issued : i.by = "pin_login"}

\* C28: every token badge login mints has the subject "employee_" followed by
\* the id of the employee and the scopes read and pos, no other; an identity
\* resolved from such a token is refused by the guard for write and for delete.
C28_BadgeTokensNeverWrite ==
    /\ \A i \in IssuedByBadge :
          /\ i.tok.sub = EmployeeSub(i.tok.employee_id)
          /\ i.tok.employee_id \in EmployeeIds
          /\ i.tok.scopes = Some({"read", "pos"})
    /\ (resp.op = "guard" /\ resp.scope \in {"write", "delete"}
           /\ \E i \in IssuedByBadge : i.tok = resp.token)
          => ~resp.ok /\ (resp.resolved => resp.status = 403)

C28_Witness ==
    /\ resp.op = "guard" /\ resp.scope = "write"
    /\ \E i \in IssuedByBadge : i.tok = resp.token
    /\ resp.resolved /\ resp.identity.auth_type = "pin"
    /\ ~resp.ok /\ resp.status = 403

-----------------------------------------------------------------------------
(* Claims about the revocation set, checked under Spec and SpecRevocation *)

LoggedOut == resp.op = "logout" /\ resp.ok

\* C29: a logout that succeeds leaves the revocation set equal to its former
\* value with the token of the body added, so revoking a token that is already
\* in the set leaves the set as it is; this holds for every token string, be
\* it expired, malformed or never issued.
C29_RevokeIsIdempotent ==
    /\ [](LoggedOut => resp.body \in REVOKED_TOKENS)
    /\ [][(pc = "idle" /\ resp'.op = "logout" /\ resp'.ok)
             => /\ REVOKED_TOKENS' = REVOKED_TOKENS \cup {resp'.body}
                /\ resp'.body \in REVOKED_TOKENS => REVOKED_TOKENS' = REVOKED_TOKENS]_vars

C29_Witness ==
    /\ LoggedOut /\ resp.again
    /\ resp.body = StaleToken
    /\ REVOKED_TOKENS = {StaleToken}

\* C30: no step removes a token from the revocation set, and the set changes
\* only in a step in which logout answers with success.
C30_RevocationSetAppendOnly ==
    [][/\ REVOKED_TOKENS \subseteq REVOKED_TOKENS'
       /\ REVOKED_TOKENS' # REVOKED_TOKENS
             => (pc = "idle" /\ resp'.op = "logout" /\ resp'.ok)]_vars

C30_Witness ==
    /\ Cardinality(REVOKED_TOKENS) = 2
    /\ resp.op = "guard" /\ resp.token \in REVOKED_TOKENS
    /\ \E i \in IssuedByBadge : i.tok \in REVOKED_TOKENS

-----------------------------------------------------------------------------
(* Claims about the guarded routes, checked under SpecGuarded *)

GuardedRoutes == {SearchRecords, CreateRecord, UpdateRecords, DeleteRecords, SearchPosProducts}

RouteOf(op) == CHOOSE rt \in GuardedRoutes : rt.op = op

OnGuardedRoute(r) == \E rt \in GuardedRoutes : r.op = rt.op

\* C31: the remote execute is invoked for a request to a guarded route only
\* when the token of the request is current and resolves to an identity that
\* passes the guard of the route: create and update only for an identity with
\* the scope write, delete only for one with the scope delete; a request is
\* answered 401 or 403 in the step that receives it, before any step of a
\* client.
C31_GuardBeforeExecute ==
    /\ []((pc = "exec_rpc" /\ OnGuardedRoute(req))
          => LET rt == RouteOf(req.op)
                 id == req.identity
             IN  /\ Current(req.token, now)
                 /\ req.token.sub # NoStr /\ id.username = req.token.sub
                 /\ id.scopes = IF IsEmployeeSub(req.token.sub)
                                 THEN req.token.scopes[1]
                                 ELSE API_USERS_config[req.token.sub].scopes
                 /\ \/ rt.scope \in id.scopes
                    \/ rt.scope = "pos" /\ id.auth_type = "pin"
                 /\ ex.method = rt.method
                 /\ ex.method \in {"create", "write"} => "write" \in id.scopes
                 /\ ex.method = "unlink" => "delete" \in id.scopes)
    /\ [][(OnGuardedRoute(resp') /\ resp'.status \in {401, 403})
             => (pc = "idle" /\ pc' = "responded" /\ uid' = uid)]_vars

C31_Witness ==
    /\ resp.op = "delete_records" /\ resp.status = 403
    /\ AdminToken \in REVOKED_TOKENS

C31_WitnessExecuted ==
    /\ pc = "exec_rpc" /\ req.op = "create_record"
    /\ req.identity.username = "admin" /\ ex.method = "create"

-----------------------------------------------------------------------------
(* Claims about logins with a configuration, checked under SpecLogin *)

\* The credentials a client built for an override authenticates with: the
\* fields the override gives, and those of the service account for the rest
Effective(o) ==
    [db       |-> IF o.db = NoStr THEN ODOO_CONFIG.db ELSE o.db,
     username |-> IF o.username = NoStr THEN ODOO_CONFIG.username ELSE o.username,
     api_key  |-> IF o.api_key = NoStr THEN ODOO_CONFIG.api_key ELSE o.api_key]

TestFailed == "Echec de connexion a Odoo avec les identifiants fournis"

\* C32: a login that gives a configuration mints its token only while the
\* client it built with that configuration holds a handle the upstream
\* returned; when the authentication of that client fails the login is
\* answered 401 without token, and the step mints no token and leaves the
\* credential store as it was.
C32_OverrideLoginNeedsUpstreamAuth ==
    /\ []((pc = "login_issue" /\ req.custom # NoOverride)
            => /\ cfg["custom"] = Effective(req.custom)
               /\ Truthy(uid["custom"]))
    /\ [][(pc = "ctor_done" /\ req.op = "login" /\ req.stage = "test"
              /\ au.outcome = "raised")
             => /\ resp'.op = "login" /\ resp'.status = 401
                /\ resp'.detail = TestFailed
                /\ resp'.access_token = None
                /\ issued' = issued
                /\ API_USERS' = API_USERS]_vars
    /\ [][\A i \in issued' \ issued :
            (i.by = "login" /\ i.verified # None)
                => /\ pc = "login_issue"
                   /\ i.verified = Some(Effective(req.custom))
                   /\ cfg["custom"] = i.verified[1]
                   /\ Truthy(uid["custom"])]_vars

C32_Witness ==
    /\ LoginAnswered /\ resp.status = 401 /\ resp.detail = TestFailed
    /\ resp.username = "admin" /\ resp.custom.api_key = "bob-key"
    /\ API_USERS["admin"].odoo_config = None
    /\ issued = {}

-----------------------------------------------------------------------------
(* Claims about the clients built for a request, checked under SpecRoute *)

\* A step of the construction of a client for a request, of its
\* _authenticate(), or of an execute_kw() through it
CustomStep ==
    \/ pc \in {"auth_try", "auth_raise"} /\ au.client = "custom"
    \/ pc \in {"exec_loop", "exec_rpc", "exec_except", "exec_backoff"} /\ ex.client = "custom"
    \/ pc' = "auth_try" /\ au'.client = "custom"

\* C33: no step of a client built for a request changes the session handle or
\* the credentials of the shared client, and the credentials of the shared
\* client are those of the service account throughout.
C33_OverrideClientLeavesSharedClient ==
    /\ [](cfg["default"] = ODOO_CONFIG)
    /\ [][CustomStep => /\ uid'["default"] = uid["default"]
                        /\ cfg'["default"] = cfg["default"]]_vars

C33_Witness ==
    /\ au.client = "custom" /\ au.ret = "exec_reauth" /\ au.outcome = "returned"
    /\ ex.client = "custom" /\ ex.retry_count = 1
    /\ uid["custom"] = 2 /\ uid["default"] = 1
    /\ cfg["custom"].api_key # cfg["default"].api_key \/ cfg["custom"].db # cfg["default"].db

-----------------------------------------------------------------------------
(* Claims about the credential store as shared state, checked under
   SpecSession *)

\* C35: every entry of the credential store equals its configured value in
\* every reachable state.
C35_CredentialStoreStatic == API_USERS = API_USERS_config

\* C36: a token that login mints for a request without configuration carries
\* no configuration.
C36_PlainLoginMintsPlainToken ==
    \A i \in issued :
        (i.by = "login" /\ i.verified = None) => i.tok.odoo_config = None

\* C37: a validated token without configuration resolves to an identity
\* without configuration, and one with a configuration resolves to an identity
\* with the database and account of that token.
C37_IdentityOverrideFromTokenOnly ==
    (Validated /\ resp.ok /\ StandardSubject(resp.token))
        => IF resp.token.odoo_config = None
           THEN resp.user.odoo_config = None
           ELSE /\ resp.user.odoo_config # None
                /\ resp.user.odoo_config[1].db = resp.token.odoo_config[1].db
                /\ resp.user.odoo_config[1].username = resp.token.odoo_config[1].username

====
